---- MODULE Spec2Model ----
(***************************************************************************)
(* The NSDP TLV discovery tool (nsdp_discovery.go): main's flag checks,    *)
(* device discovery, and the batch scan of the 16-bit TLV identifier space *)
(* (scanDevice, scanBatch, queryTLV), followed by displayResults.          *)
(* Identifiers are Go uint16 values: every sum is taken modulo 2^16.       *)
(***************************************************************************)
EXTENDS Integers, Sequences, FiniteSets, TLC

(***************************************************************************)
(* Bounds of the exploration.                                              *)
(***************************************************************************)
\* Ranges are drawn from windows of Span + 1 identifiers at the bottom
\* (0 ..) and at the top (.. 0xFFFF) of the identifier space.
Span == 2
\* A scan may issue this many transactions (and run this many batches) more
\* than its range holds identifiers before the exploration stops following it.
MaxExtra == 3
\* The number of devices Discover may return.
MaxDevices == 2
\* The longest payload a device of the "report" kind answers with.
MaxPayloadLen == 7

(***************************************************************************)
(* Program constants.                                                      *)
(***************************************************************************)
\* Width of TLVResponse.TLV, start, end, current, batchEnd, tlv (uint16).
UInt16Mod == 65536
MaxUint16 == UInt16Mod - 1
\* Default of the -batch flag.
DefaultBatch == 100
\* Default of the -delay flag, in milliseconds.
DefaultDelayMs == 100

U16(x) == x % UInt16Mod

(***************************************************************************)
(* Strings are sequences of one-character strings.                         *)
(***************************************************************************)
UpperDigits == <<"0", "1", "2", "3", "4", "5", "6", "7", "8", "9",
                 "A", "B", "C", "D", "E", "F">>
LowerDigits == <<"0", "1", "2", "3", "4", "5", "6", "7", "8", "9",
                 "a", "b", "c", "d", "e", "f">>

\* The value of one character in base 16, or -1 when it is no digit.
DigitVal(c) ==
    IF \E i \in 1..16 : UpperDigits[i] = c
    THEN (CHOOSE i \in 1..16 : UpperDigits[i] = c) - 1
    ELSE IF \E i \in 1..16 : LowerDigits[i] = c
    THEN (CHOOSE i \in 1..16 : LowerDigits[i] = c) - 1
    ELSE -1

RECURSIVE HexValue(_)
HexValue(s) ==
    IF s = <<>> THEN 0
    ELSE 16 * HexValue(SubSeq(s, 1, Len(s) - 1)) + DigitVal(s[Len(s)])

\* strconv.ParseUint(s, 16, 16): a syntax error for the empty string or any
\* character that is no hexadecimal digit, a range error above 0xFFFF.
ParseUint(s) ==
    IF s = <<>> \/ \E i \in 1..Len(s) : DigitVal(s[i]) < 0
    THEN [val |-> 0, err |-> "invalid syntax"]
    ELSE IF HexValue(s) > MaxUint16
    THEN [val |-> MaxUint16, err |-> "value out of range"]
    ELSE [val |-> HexValue(s), err |-> ""]

\* The four-digit upper-case form of an identifier, as the operator types it.
Hex4(v) ==
    << UpperDigits[((v \div 4096) % 16) + 1], UpperDigits[((v \div 256) % 16) + 1],
       UpperDigits[((v \div 16) % 16) + 1], UpperDigits[(v % 16) + 1] >>

(***************************************************************************)
(* Inputs.                                                                 *)
(***************************************************************************)
LowWindow == 0..Span
TopWindow == (MaxUint16 - Span)..MaxUint16

\* A range near the top of the identifier space and a batch size of 0x8001,
\* with which the scan wraps around the identifier space once and returns.
WrapRange == [start |-> MaxUint16 - 3, end |-> MaxUint16 - 1, batch |-> 32769]
\* The simulated device of the end-to-end scenario: it answers 0x0C00 with
\* the byte 0x01 and 0x6000 with the byte 0x08, and nothing else.
E2EAnswers == (3072 :> <<1>>) @@ (24576 :> <<8>>)

\* Strings ParseUint rejects: empty, no digit, a prefix, too large, a sign.
BadHexInputs == { <<>>, <<"G">>, <<"0", "x", "1", "0">>, <<"1", "0", "0", "0", "0">>,
                  <<"-", "1">> }
\* Spellings ParseUint accepts besides four upper-case digits.
OtherSpellings == { <<"f", "f", "f", "e">>, <<"1">>, <<"0", "0", "0", "0", "1">> }
HexInputs ==
    {Hex4(v) : v \in LowWindow \cup TopWindow \cup {WrapRange.start, WrapRange.end}}
        \cup OtherSpellings \cup BadHexInputs

BatchSizes == {-1, 0, 1, 2, 3, DefaultBatch, MaxUint16, UInt16Mod, WrapRange.batch}
Delays == {0, DefaultDelayMs}

\* Values of the -o flag: none, a name with an extension, a name without,
\* a name without extension in the directory ".".
OutputFiles ==
    { <<>>, <<"o", "u", "t", ".", "t", "x", "t">>, <<"o", "u", "t">>,
      <<".", "/", "o", "u", "t">> }
\* What time.Since(startTime) may give (line 183), in milliseconds.
Durations == {3, 7}

Interfaces == {"", "eth0", "nolink0"}
\* net.InterfaceByName: the interfaces the host has.
HostInterfaces == {"eth0"}

VARIABLES
    \* flags (main, lines 36-46)
    interfaceName, startHex, endHex, batchSize, delay, verbose, outputFile,
    \* the kind of device on the network (see Support)
    scenario,
    \* main
    pc, fatal, startVal, endVal, discovered, devices, devIdx,
    \* scanDevice
    results, current, batchNum, batchEnd, sleeps,
    \* scanBatch
    tlv, batchResults,
    \* the device under scan: the outcome of the transaction for each
    \* identifier it has been asked for (or is fixed to answer)
    txn,
    \* what the scan did: the sub-ranges handed to scanBatch, the number of
    \* transactions issued and the last identifier queried
    batches, nQueries, lastQueried,
    \* the identifiers handed to queryTLV, in order, as runs lo..hi of
    \* consecutive identifiers
    queried,
    \* the lines scanDevice and scanBatch printed
    progress,
    \* the result as scanDevice returned it for the device under scan
    returned,
    \* the lines displayResults and saveResults printed for that device
    console,
    \* the file system: the lines of each file written
    files,
    \* the calls of saveResults: device, file name, whether os.Create succeeded
    saveLog,
    \* the client tool (src/unnamed/part_001), whose flags -i and -v are
    \* interfaceName and verbose: the switch it talks to, its place in
    \* queryAllParameters (0 while it is not running), the counters of the
    \* loop under way, the queries it has issued and the lines it has printed
    switch, section, port, vlanID, queries, output

flags == <<interfaceName, startHex, endHex, batchSize, delay, verbose, outputFile,
           scenario>>
mainVars == <<pc, fatal, startVal, endVal, discovered, devices, devIdx>>
scanVars == <<results, current, batchNum, batchEnd, sleeps>>
batchVars == <<tlv, batchResults>>
histVars == <<batches, nQueries, lastQueried, queried, progress>>
reportVars == <<returned, console, files, saveLog>>
clientVars == <<switch, section, port, vlanID, queries, output>>
vars == <<flags, mainVars, scanVars, batchVars, txn, histVars, reportVars, clientVars>>

(***************************************************************************)
(* The device: device.Query's answer for one identifier.                   *)
(***************************************************************************)
Timeout == [kind |-> "timeout", data |-> <<>>]
Absent == [kind |-> "absent", data |-> <<>>]
Value(d) == [kind |-> "value", data |-> d]

\* The payload a windowed device holds for an identifier: one byte for an
\* even identifier, two for an odd one.
Payload(id) == IF id % 2 = 0 THEN <<id % 256>> ELSE <<id \div 256, id % 256>>

\* The devices:
\*   "window"  answers the identifiers of the window the range lies in, each
\*             in any way, the same way whenever it is asked again;
\*   "e2e"     the end-to-end device, scanned over the full range;
\*   "wrap"    answers the first two identifiers of WrapRange and nothing
\*             else, scanned over WrapRange;
\*   "silent"  answers nothing;
\*   "report"  answers some of the identifiers 0 .. 2, all with the same
\*             payload: any of ReportPayloads when the range is 0 .. 2, the
\*             byte 1 when the range is longer.
\* Where a scan is followed around the whole identifier space ("e2e",
\* "wrap", "silent") or for its report, one device is found and its name and
\* model lookups succeed.
Deep == scenario # "window"

\* The payloads of the "report" device: one and two bytes out of RichBytes
\* (the limits of the printable range and their neighbours among them),
\* three to MaxPayloadLen bytes out of PoorBytes (one printable, one not),
\* an address, the greatest 32-bit value and a MAC.
RichBytes == {0, 1, 8, 31, 32, 104, 105, 126, 127, 255}
PoorBytes == {8, 105}
ReportIds == 0..2
ReportPayloads ==
    [1..1 -> RichBytes] \cup [1..2 -> RichBytes]
        \cup UNION { [1..n -> PoorBytes] : n \in 3..MaxPayloadLen }
        \cup { <<192, 168, 1, 100>>, <<255, 255, 255, 255>>, <<0, 17, 34, 51, 68, 85>> }

\* The identifiers the device under scan may answer; any other identifier
\* is not in its response.
Support ==
    IF scenario = "e2e" THEN DOMAIN E2EAnswers
    ELSE IF scenario = "wrap" THEN {WrapRange.start, WrapRange.start + 1}
    ELSE IF scenario = "silent" THEN {}
    ELSE IF scenario = "report" THEN ReportIds
    ELSE IF startVal \in LowWindow THEN LowWindow ELSE TopWindow

\* What is fixed of the device when its scan starts.
InitialTable ==
    IF scenario = "e2e" THEN [id \in DOMAIN E2EAnswers |-> Value(E2EAnswers[id])]
    ELSE IF scenario = "wrap"
    THEN [id \in {WrapRange.start, WrapRange.start + 1} |-> Value(Payload(id))]
    ELSE <<>>

\* The answers the device may give for id: nothing outside its support, its
\* earlier answer if it was asked before, anything otherwise.
DeviceAnswers(id) ==
    IF id \notin Support THEN {Absent}
    ELSE IF id \in DOMAIN txn THEN {txn[id]}
    ELSE IF scenario = "report"
    THEN LET given == {txn[i] : i \in DOMAIN txn} \ {Absent}
         IN  {Absent} \cup
                (IF given # {} THEN given
                 ELSE IF endVal \in ReportIds THEN {Value(p) : p \in ReportPayloads}
                 ELSE {Value(<<1>>)})
    ELSE {Timeout, Absent, Value(<<>>), Value(Payload(id))}

(***************************************************************************)
(* main: flag checks and discovery (lines 46-95).                          *)
(***************************************************************************)
\* The check of the range, were it left out.
RangeRejected_Never(s, e) == FALSE

\* The check of the range after both bounds parsed (line 65).
RangeRejected(s, e) == s > e

\* net.InterfaceByName fails for a name the host does not have (line 78).
InterfaceError(name) == name \notin HostInterfaces

\* The message main dies with before discovery, "" when it goes on
\* (lines 54-81).
ConfigFatal(sHex, eHex, name) ==
    LET s == ParseUint(sHex)
        e == ParseUint(eHex)
    IN  IF s.err # "" THEN "Invalid start hex value"
        ELSE IF e.err # "" THEN "Invalid end hex value"
        ELSE IF RangeRejected(s.val, e.val) THEN "Start value must be <= end value"
        ELSE IF InterfaceError(name) THEN "Failed to get interface"
        ELSE ""

\* Lines 46-81: the interface name is required, the bounds parse as 16-bit
\* hexadecimal, start <= end, the interface resolves.
MainConfig ==
    /\ pc = "main"
    /\ IF interfaceName = ""
       THEN pc' = "usage" /\ UNCHANGED <<fatal, startVal, endVal>>
       ELSE LET msg == ConfigFatal(startHex, endHex, interfaceName)
            IN  IF msg # ""
                THEN pc' = "fatal" /\ fatal' = msg /\ UNCHANGED <<startVal, endVal>>
                ELSE /\ pc' = "discover"
                     /\ startVal' = ParseUint(startHex).val
                     /\ endVal' = ParseUint(endHex).val
                     /\ UNCHANGED fatal
    /\ UNCHANGED <<flags, discovered, devices, devIdx, scanVars, batchVars, txn, histVars,
                   reportVars>>
    /\ UNCHANGED clientVars

\* Lines 84-95: nsdp.Discover fails, finds no device, or finds n devices
\* (several where the range is a single identifier, else one).
Discover ==
    /\ pc = "discover"
    /\ discovered' = TRUE
    /\ \/ pc' = "fatal" /\ fatal' = "Failed to discover devices"
          /\ UNCHANGED <<devices, devIdx>>
       \/ pc' = "nodevices" /\ UNCHANGED <<fatal, devices, devIdx>>
       \/ \E n \in 1..(IF Deep \/ startVal # endVal THEN 1 ELSE MaxDevices) :
             /\ devices' = n /\ devIdx' = 0 /\ pc' = "scanDevice"
             /\ UNCHANGED fatal
    /\ UNCHANGED <<flags, startVal, endVal, scanVars, batchVars, txn, histVars,
                   reportVars>>
    /\ UNCHANGED clientVars

(***************************************************************************)
(* scanDevice (lines 124-186) and scanBatch (lines 188-221).               *)
(***************************************************************************)
\* int(end - start + 1), the difference taken in uint16 (line 128).
TotalTestedOf(start, end) == U16(end - start + 1)

\* batchEnd := current + uint16(batchSize) - 1, clipped at end
\* (lines 155-158).
BatchEndOf(cur, size, end) ==
    LET be == U16(cur + U16(size) - 1)
    IN  IF be > end THEN end ELSE be

\* current = batchEnd + 1 (line 173).
NextCursor(be) == U16(be + 1)

\* tlv++ (line 191).
NextTLV(t) == U16(t + 1)

\* queryTLV (lines 223-240): the value of the TLV in the response, or an
\* error when the query failed or the response does not hold the TLV.
queryTLV(answer) ==
    IF answer.kind = "timeout" THEN [data |-> <<>>, err |-> "timeout"]
    ELSE IF answer.kind = "value" THEN [data |-> answer.data, err |-> ""]
    ELSE [data |-> <<>>, err |-> "TLV not in response"]

\* hex.EncodeToString: two lower-case digits a byte.
RECURSIVE HexEncode(_)
HexEncode(data) ==
    IF data = <<>> THEN <<>>
    ELSE <<LowerDigits[(data[1] \div 16) + 1], LowerDigits[(data[1] % 16) + 1]>>
             \o HexEncode(Tail(data))

\* The TLVResponse scanBatch builds (lines 206-211).
TLVResponseOf(id, response) ==
    [TLV |-> id, HexValue |-> HexEncode(response), RawData |-> response,
     Length |-> Len(response)]

\* The test, were a value of no bytes let through.
IsFinding_AcceptsEmpty(r) == r.err = ""

\* The test a response passes to become a finding (lines 198, 205).
IsFinding(r) == r.err = "" /\ Len(r.data) > 0

\* The findings of the batch, were a finding kept in a verbose scan only.
Collected_WhenVerbose(v, found, id, response) ==
    IF IsFinding(response) /\ v
    THEN Append(found, TLVResponseOf(id, response.data))
    ELSE found

\* The findings of the batch after one iteration of scanBatch
\* (lines 197-217): a response that passes the test is appended, with
\* verbose on or off.
Collected(v, found, id, response) ==
    IF IsFinding(response)
    THEN Append(found, TLVResponseOf(id, response.data))
    ELSE found

\* A printed line: its kind and up to three values.
Line(tag, a, b, c) == [tag |-> tag, a |-> a, b |-> b, c |-> c]

\* The lines of the device header (lines 141-148).
HeaderLines(name, model) ==
    <<Line("mac", 0, 0, 0)>>
        \o (IF name # "" THEN <<Line("name", name, 0, 0)>> ELSE <<>>)
        \o (IF model # "" THEN <<Line("model", model, 0, 0)>> ELSE <<>>)

\* What one iteration of scanBatch prints for tlv (lines 192-194, 199-201,
\* 214-216).
ProbeLines(v, id, response) ==
    (IF v /\ id % 1000 = 0 THEN <<Line("testing", id, 0, 0)>> ELSE <<>>)
        \o (IF response.err # ""
            THEN (IF v /\ id % 1000 = 0
                  THEN <<Line("error", id, response.err, 0)>> ELSE <<>>)
            ELSE IF Len(response.data) > 0 /\ v
            THEN <<Line("success", id, Len(response.data), HexEncode(response.data))>>
            ELSE <<>>)

\* What scanDevice prints after a batch, were the count left out for a
\* batch without findings.
FoundLines_OnlyWhenFound(v, found) ==
    IF Len(found) > 0
    THEN <<Line("found", Len(found), 0, 0)>>
            \o (IF v
                THEN [k \in 1..Len(found) |->
                        Line("tlv", found[k].TLV, found[k].Length, found[k].HexValue)]
                ELSE <<>>)
    ELSE <<>>

\* What scanDevice prints after a batch (lines 165-171).
FoundLines(v, found) ==
    <<Line("found", Len(found), 0, 0)>>
        \o (IF v /\ Len(found) > 0
            THEN [k \in 1..Len(found) |->
                    Line("tlv", found[k].TLV, found[k].Length, found[k].HexValue)]
            ELSE <<>>)

\* The transactions (and batches) a scan is followed for: MaxExtra more than
\* its range holds identifiers, once around the identifier space for "e2e",
\* and once more than that for "wrap". The scan of the silent device is
\* followed without end: its transactions are counted and recorded up to
\* the budget.
QueryBudget ==
    IF scenario = "e2e" THEN UInt16Mod
    ELSE (endVal - startVal + 1) + MaxExtra
            + (IF scenario = "wrap" THEN UInt16Mod ELSE 0)

\* The record of the identifiers queried, with one more: a run grows by the
\* identifier that follows its last, any other identifier starts a new run.
Record(runs, id) ==
    IF runs # <<>> /\ runs[Len(runs)].hi + 1 = id
    THEN [runs EXCEPT ![Len(runs)].hi = id]
    ELSE Append(runs, [lo |-> id, hi |-> id])

\* The zero value of DiscoveryResults.
NoResults ==
    [DeviceName |-> "", DeviceModel |-> "", ValidTLVs |-> <<>>,
     TotalTested |-> 0, TotalValid |-> 0, ScanDuration |-> 0]

\* The name and model lookups may fail in the runs with the default delay
\* and verbosity that save nothing; they succeed in all others.
LookupsSucceed ==
    Deep \/ outputFile # <<>> \/ delay # DefaultDelayMs \/ verbose

\* Lines 124-152.
ScanStart ==
    /\ pc = "scanDevice"
    /\ \E name \in {"GS108E"} \cup (IF LookupsSucceed THEN {} ELSE {""}),
          model \in {"GS108Ev3"} \cup (IF LookupsSucceed THEN {} ELSE {""}) :
          results' = [NoResults EXCEPT
                        !.DeviceName = name, !.DeviceModel = model,
                        !.TotalTested = TotalTestedOf(startVal, endVal)]
    /\ current' = startVal
    /\ batchNum' = 1
    /\ batchEnd' = 0 /\ sleeps' = 0
    /\ tlv' = 0 /\ batchResults' = <<>>
    /\ txn' = InitialTable
    /\ batches' = <<>> /\ nQueries' = 0 /\ lastQueried' = -1
    /\ queried' = <<>>
    /\ progress' = HeaderLines(results'.DeviceName, results'.DeviceModel)
    /\ returned' = NoResults /\ console' = <<>>
    /\ pc' = "loop"
    /\ UNCHANGED <<flags, fatal, startVal, endVal, discovered, devices, devIdx,
                   files, saveLog>>
    /\ UNCHANGED clientVars

\* Lines 154-162 and 189-191: the next batch is handed to scanBatch.
BatchBegin ==
    /\ pc = "loop"
    /\ current <= endVal
    /\ batchNum <= QueryBudget
    /\ batchEnd' = BatchEndOf(current, batchSize, endVal)
    /\ batches' = Append(batches, [num |-> batchNum, lo |-> current, hi |-> batchEnd'])
    /\ progress' = Append(progress, Line("batch", batchNum, current, batchEnd'))
    /\ tlv' = current
    /\ batchResults' = <<>>
    /\ pc' = "batch"
    /\ UNCHANGED <<flags, fatal, startVal, endVal, discovered, devices, devIdx,
                   results, current, batchNum, sleeps, txn, nQueries, lastQueried,
                   queried, reportVars>>
    /\ UNCHANGED clientVars

\* Lines 191-218: one iteration of scanBatch's loop.
Probe ==
    /\ pc = "batch"
    /\ tlv <= batchEnd
    /\ scenario = "silent" \/ nQueries < QueryBudget
    /\ \E answer \in DeviceAnswers(tlv) :
          LET response == queryTLV(answer)
          IN  /\ txn' = IF tlv \in Support /\ tlv \notin DOMAIN txn
                        THEN (tlv :> answer) @@ txn
                        ELSE txn
              /\ batchResults' = Collected(verbose, batchResults, tlv, response)
              /\ progress' = progress \o ProbeLines(verbose, tlv, response)
    /\ tlv' = NextTLV(tlv)
    /\ nQueries' = IF nQueries < QueryBudget THEN nQueries + 1 ELSE nQueries
    /\ queried' = IF nQueries < QueryBudget THEN Record(queried, tlv) ELSE queried
    /\ lastQueried' = tlv
    /\ UNCHANGED <<flags, mainVars, scanVars, batches, reportVars>>
    /\ UNCHANGED clientVars

\* The test before time.Sleep, were the cursor left out of it.
ShouldSleep_AfterEveryBatch(cur, end, d) == d > 0

\* Whether scanDevice sleeps after a batch: more is to come and the delay is
\* positive (line 177).
ShouldSleep(cur, end, d) == cur <= end /\ d > 0

\* Lines 220 and 163-180: scanBatch returns, its findings are appended, the
\* cursor moves past the batch and the scan sleeps if more is to come.
BatchReturn ==
    /\ pc = "batch"
    /\ ~(tlv <= batchEnd)
    /\ results' = [results EXCEPT !.ValidTLVs = results.ValidTLVs \o batchResults]
    /\ current' = NextCursor(batchEnd)
    /\ batchNum' = batchNum + 1
    /\ sleeps' = IF ShouldSleep(current', endVal, delay) THEN sleeps + 1 ELSE sleeps
    /\ progress' = progress \o FoundLines(verbose, batchResults)
    /\ pc' = "loop"
    /\ UNCHANGED <<flags, fatal, startVal, endVal, discovered, devices, devIdx,
                   batchEnd, batchVars, txn, batches, nQueries, lastQueried,
                   queried, reportVars>>
    /\ UNCHANGED clientVars

\* TotalValid, were the bytes found counted instead of the findings.
RECURSIVE TotalValidOf_Bytes(_)
TotalValidOf_Bytes(findings) ==
    IF findings = <<>> THEN 0
    ELSE findings[1].Length + TotalValidOf_Bytes(Tail(findings))

\* results.TotalValid = len(results.ValidTLVs) (line 182).
TotalValidOf(findings) == Len(findings)

\* Lines 154 and 182-185: the loop ends and scanDevice returns its result.
ScanReturn ==
    /\ pc = "loop"
    /\ ~(current <= endVal)
    /\ \E elapsed \in Durations :
          results' = [results EXCEPT !.TotalValid = TotalValidOf(results.ValidTLVs),
                                     !.ScanDuration = elapsed]
    /\ returned' = results'
    /\ pc' = "display"
    /\ UNCHANGED <<flags, fatal, startVal, endVal, discovered, devices, devIdx,
                   current, batchNum, batchEnd, sleeps, batchVars, txn, histVars,
                   console, files, saveLog>>
    /\ UNCHANGED clientVars

(***************************************************************************)
(* Formatting (fmt.Sprintf, string(data)) and interpretTLVData             *)
(* (lines 270-318).                                                        *)
(***************************************************************************)
\* The characters of the bytes 32 .. 126 (byte 96, the grave accent, by name).
AsciiPrintable ==
    << " ", "!", "\"", "#", "$", "%", "&", "'", "(", ")", "*", "+", ",", "-", ".", "/",
       "0", "1", "2", "3", "4", "5", "6", "7", "8", "9", ":", ";", "<", "=", ">", "?",
       "@", "A", "B", "C", "D", "E", "F", "G", "H", "I", "J", "K", "L", "M", "N", "O",
       "P", "Q", "R", "S", "T", "U", "V", "W", "X", "Y", "Z", "[", "\\", "]", "^", "_",
       "grave", "a", "b", "c", "d", "e", "f", "g", "h", "i", "j", "k", "l", "m", "n", "o",
       "p", "q", "r", "s", "t", "u", "v", "w", "x", "y", "z", "{", "|", "}", "~" >>

\* string(data): the character of each byte, by name outside 32 .. 126.
RECURSIVE StringOf(_)
StringOf(data) ==
    IF data = <<>> THEN <<>>
    ELSE <<IF data[1] \in 32..126 THEN AsciiPrintable[data[1] - 31] ELSE "nonprintable">>
             \o StringOf(Tail(data))

\* %d of a value that fits TLC's integers.
RECURSIVE Decimal(_)
Decimal(n) ==
    IF n < 10 THEN <<UpperDigits[n + 1]>>
    ELSE Decimal(n \div 10) \o <<UpperDigits[(n % 10) + 1]>>

\* The big-endian number of the bytes, divided by ten: quotient (as bytes)
\* and remainder.
RECURSIVE DivTen(_, _)
DivTen(bytes, carry) ==
    IF bytes = <<>> THEN [q |-> <<>>, r |-> carry]
    ELSE LET cur == carry * 256 + bytes[1]
             rest == DivTen(Tail(bytes), cur % 10)
         IN  [q |-> <<cur \div 10>> \o rest.q, r |-> rest.r]

\* %d of uint32(data[0])<<24 | uint32(data[1])<<16 | uint32(data[2])<<8 |
\* uint32(data[3]) (lines 291-292): the value does not fit TLC's integers,
\* its digits are taken from the bytes.
RECURSIVE DecimalOfBytes(_)
DecimalOfBytes(bytes) ==
    LET d == DivTen(bytes, 0)
    IN  IF \A i \in 1..Len(d.q) : d.q[i] = 0
        THEN <<UpperDigits[d.r + 1]>>
        ELSE DecimalOfBytes(d.q) \o <<UpperDigits[d.r + 1]>>

\* %02x of a byte.
Hex2(b) == <<LowerDigits[(b \div 16) + 1], LowerDigits[(b % 16) + 1]>>

RECURSIVE Join(_, _)
Join(strs, sep) ==
    IF strs = <<>> THEN <<>>
    ELSE IF Len(strs) = 1 THEN strs[1]
    ELSE strs[1] \o sep \o Join(Tail(strs), sep)

\* isPrintableASCII, were the upper limit left out.
isPrintableASCII_NoUpperLimit(data) ==
    /\ \A i \in 1..Len(data) : ~(data[i] < 32)
    /\ Len(data) > 0

\* Lines 311-318.
isPrintableASCII(data) ==
    /\ \A i \in 1..Len(data) : ~(data[i] < 32 \/ data[i] > 126)
    /\ Len(data) > 0

\* The candidate of lines 278-281.
StringCandidate(data) ==
    IF isPrintableASCII(data)
    THEN << <<"S", "t", "r", "i", "n", "g", ":", " ", "\"">> \o StringOf(data) \o <<"\"">> >>
    ELSE <<>>

\* The candidates by length, were the 16-bit value read little-endian.
LengthCandidates_LittleEndian(data) ==
    CASE Len(data) = 1 ->
            << <<"U", "i", "n", "t", "8", ":", " ">> \o Decimal(data[1]) >>
      [] Len(data) = 2 ->
            << <<"U", "i", "n", "t", "1", "6", ":", " ">> \o Decimal(data[2] * 256 + data[1]) >>
      [] Len(data) = 4 ->
            << <<"U", "i", "n", "t", "3", "2", ":", " ">> \o DecimalOfBytes(data),
               <<"I", "P", ":", " ">>
                   \o Join([i \in 1..4 |-> Decimal(data[i])], <<".">>) >>
      [] Len(data) = 6 ->
            << <<"M", "A", "C", ":", " ">>
                   \o Join([i \in 1..6 |-> Hex2(data[i])], <<":">>) >>
      [] OTHER -> <<>>

\* The candidates by length, were three bytes read as a 24-bit value.
LengthCandidates_WithUint24(data) ==
    CASE Len(data) = 1 ->
            << <<"U", "i", "n", "t", "8", ":", " ">> \o Decimal(data[1]) >>
      [] Len(data) = 2 ->
            << <<"U", "i", "n", "t", "1", "6", ":", " ">> \o Decimal(data[1] * 256 + data[2]) >>
      [] Len(data) = 3 ->
            << <<"U", "i", "n", "t", "2", "4", ":", " ">>
                   \o Decimal(data[1] * 65536 + data[2] * 256 + data[3]) >>
      [] Len(data) = 4 ->
            << <<"U", "i", "n", "t", "3", "2", ":", " ">> \o DecimalOfBytes(data),
               <<"I", "P", ":", " ">>
                   \o Join([i \in 1..4 |-> Decimal(data[i])], <<".">>) >>
      [] Len(data) = 6 ->
            << <<"M", "A", "C", ":", " ">>
                   \o Join([i \in 1..6 |-> Hex2(data[i])], <<":">>) >>
      [] OTHER -> <<>>

\* The candidates of the switch on len(data) (lines 284-302).
LengthCandidates(data) ==
    CASE Len(data) = 1 ->
            << <<"U", "i", "n", "t", "8", ":", " ">> \o Decimal(data[1]) >>
      [] Len(data) = 2 ->
            << <<"U", "i", "n", "t", "1", "6", ":", " ">> \o Decimal(data[1] * 256 + data[2]) >>
      [] Len(data) = 4 ->
            << <<"U", "i", "n", "t", "3", "2", ":", " ">> \o DecimalOfBytes(data),
               <<"I", "P", ":", " ">>
                   \o Join([i \in 1..4 |-> Decimal(data[i])], <<".">>) >>
      [] Len(data) = 6 ->
            << <<"M", "A", "C", ":", " ">>
                   \o Join([i \in 1..6 |-> Hex2(data[i])], <<":">>) >>
      [] OTHER -> <<>>

\* interpretTLVData, were it to read the finding's identifier too.
interpretTLVData_ById(finding) ==
    IF finding.TLV % 2 = 1 THEN <<>>
    ELSE Join(StringCandidate(finding.RawData) \o LengthCandidates(finding.RawData),
              <<" ", "|", " ">>)

\* Lines 270-309.
interpretTLVData(finding) ==
    LET data == finding.RawData
        interpretations == StringCandidate(data) \o LengthCandidates(data)
    IN  IF Len(data) = 0 THEN <<>>
        ELSE IF Len(interpretations) > 0
        THEN Join(interpretations, <<" ", "|", " ">>)
        ELSE <<>>

\* %.2f, were the quotient cut off after two decimals.
FormatRate_Truncated(valid, tested) ==
    IF tested = 0 THEN (IF valid = 0 THEN <<"N", "a", "N">> ELSE <<"+", "I", "n", "f">>)
    ELSE LET h == (valid * 10000) \div tested
         IN  Decimal(h \div 100) \o <<".">>
                 \o Decimal((h % 100) \div 10) \o Decimal(h % 10)

\* %.2f of float64(TotalValid)/float64(TotalTested)*100 (lines 246, 341):
\* NaN or +Inf when TotalTested is 0, else the nearest hundredth (a tie
\* needs a TotalTested that is a multiple of 32).
FormatRate(valid, tested) ==
    IF tested = 0 THEN (IF valid = 0 THEN <<"N", "a", "N">> ELSE <<"+", "I", "n", "f">>)
    ELSE LET h == (2 * valid * 10000 + tested) \div (2 * tested)
         IN  Decimal(h \div 100) \o <<".">>
                 \o Decimal((h % 100) \div 10) \o Decimal(h % 10)

(***************************************************************************)
(* displayResults (lines 242-268) and the rest of main's loop.             *)
(***************************************************************************)
\* sort.Slice by TLV (lines 254-256), as an insertion sort.
RECURSIVE InsertByTLV(_, _)
InsertByTLV(sorted, x) ==
    IF sorted = <<>> THEN <<x>>
    ELSE IF x.TLV < sorted[1].TLV THEN <<x>> \o sorted
    ELSE <<sorted[1]>> \o InsertByTLV(Tail(sorted), x)

RECURSIVE SortByTLV(_)
SortByTLV(s) ==
    IF s = <<>> THEN <<>>
    ELSE InsertByTLV(SortByTLV(SubSeq(s, 1, Len(s) - 1)), s[Len(s)])

\* The lines written for each finding: by displayResults (lines 258-266)
\* the finding and its interpretation, by saveResults (lines 349-358) the
\* identifier, the length, the bytes in hexadecimal, the interpretation and
\* an empty line.
RECURSIVE FindingLines(_, _)
FindingLines(fs, toFile) ==
    IF fs = <<>> THEN <<>>
    ELSE LET f == fs[1]
             interpretation == interpretTLVData(f)
             interp == IF interpretation # <<>>
                       THEN <<Line("interp", interpretation, 0, 0)>> ELSE <<>>
         IN  (IF toFile
              THEN <<Line("tlv", f.TLV, 0, 0), Line("length", f.Length, 0, 0),
                     Line("hex", f.HexValue, 0, 0)>> \o interp
                       \o <<Line("blank", 0, 0, 0)>>
              ELSE <<Line("tlv", f.TLV, f.Length, f.HexValue)>> \o interp)
                 \o FindingLines(Tail(fs), toFile)

\* The summary of a result (lines 244-247, 339-342).
SummaryLines(r) ==
    << Line("tested", r.TotalTested, 0, 0), Line("valid", r.TotalValid, 0, 0),
       Line("rate", FormatRate(r.TotalValid, r.TotalTested), 0, 0),
       Line("duration", r.ScanDuration, 0, 0) >>

\* What displayResults prints for a result whose findings it has sorted
\* (lines 243-267).
DisplayLines(r) ==
    <<Line("results", 0, 0, 0)>> \o SummaryLines(r)
        \o (IF Len(r.ValidTLVs) > 0
            THEN <<Line("validTLVs", 0, 0, 0)>> \o FindingLines(r.ValidTLVs, FALSE)
            ELSE <<>>)

\* What saveResults writes, were the findings left out.
FileLines_HeaderOnly(r) ==
    <<Line("title", 0, 0, 0), Line("date", 0, 0, 0)>>
        \o HeaderLines(r.DeviceName, r.DeviceModel)
        \o SummaryLines(r)
        \o <<Line("validTLVs", 0, 0, 0)>>

\* What saveResults writes to the file (lines 329-358).
FileLines(r) ==
    <<Line("title", 0, 0, 0), Line("date", 0, 0, 0)>>
        \o HeaderLines(r.DeviceName, r.DeviceModel)
        \o SummaryLines(r)
        \o <<Line("validTLVs", 0, 0, 0)>>
        \o FindingLines(r.ValidTLVs, TRUE)

\* Lines 103 and 242-268: the slice displayResults sorts shares its array
\* with main's results.
Display ==
    /\ pc = "display"
    /\ results' = [results EXCEPT !.ValidTLVs = SortByTLV(results.ValidTLVs)]
    /\ console' = DisplayLines(results')
    /\ pc' = IF outputFile # <<>> THEN "save" ELSE "next"
    /\ UNCHANGED <<flags, fatal, startVal, endVal, discovered, devices, devIdx,
                   current, batchNum, batchEnd, sleeps, batchVars, txn, histVars,
                   returned, files, saveLog>>
    /\ UNCHANGED clientVars

\* The last "." of a name, 0 when it has none.
LastDot(name) ==
    IF \E i \in 1..Len(name) : name[i] = "."
    THEN CHOOSE i \in 1..Len(name) :
            name[i] = "." /\ \A j \in (i + 1)..Len(name) : name[j] # "."
    ELSE 0

\* The file of device i (from 0) of n (lines 107-116): with several devices
\* "_device<i+1>" goes before the last extension, or at the end.
Filename(out, n, i) ==
    IF n > 1
    THEN LET k == LastDot(out)
             device == <<"_", "d", "e", "v", "i", "c", "e">> \o Decimal(i + 1)
         IN  IF k > 0
             THEN SubSeq(out, 1, k - 1) \o device \o <<".">>
                      \o SubSeq(out, k + 1, Len(out))
             ELSE out \o device
    ELSE out

\* saveResults, were the report written whether or not os.Create failed.
WriteFile_Regardless(fs, name, created, lines) == (name :> lines) @@ fs

\* The file system after saveResults (lines 321-358): nothing is written
\* when os.Create fails, else the file holds the report and nothing else.
WriteFile(fs, name, created, lines) ==
    IF created THEN (name :> lines) @@ fs ELSE fs

\* Lines 105-118 and 320-361: main saves the result under the device's file
\* name; os.Create succeeds or fails.
Save ==
    /\ pc = "save"
    /\ LET filename == Filename(outputFile, devices, devIdx)
       IN  \E created \in BOOLEAN :
              /\ files' = WriteFile(files, filename, created, FileLines(results))
              /\ saveLog' = Append(saveLog, [device |-> devIdx, filename |-> filename,
                                             created |-> created])
              /\ console' = Append(console,
                                   Line(IF created THEN "saved" ELSE "createError",
                                        filename, 0, 0))
    /\ pc' = "next"
    /\ UNCHANGED <<flags, fatal, startVal, endVal, discovered, devices, devIdx,
                   scanVars, batchVars, txn, histVars, returned>>
    /\ UNCHANGED clientVars

\* Lines 98 and 120-121: the next device, or the end of main.
NextDevice ==
    /\ pc = "next"
    /\ IF devIdx + 1 < devices
       THEN devIdx' = devIdx + 1 /\ pc' = "scanDevice"
       ELSE devIdx' = devIdx /\ pc' = "done"
    /\ UNCHANGED <<flags, fatal, startVal, endVal, discovered, devices,
                   scanVars, batchVars, txn, histVars, reportVars>>
    /\ UNCHANGED clientVars

\* No switch: the client tool is not running.
NoSwitch == [ports |-> 0, vlans |-> {}, failing |-> {}, timeouts |-> {}]

(***************************************************************************)
(* The client tool (src/unnamed/part_001): main, queryAllParameters and    *)
(* the loops of queryPortStatistics, queryVLANInfo and queryRateLimiting.  *)
(***************************************************************************)
\* maxPorts of queryPortStatistics, and the last port whose errors it shows
\* and which it queries whatever the outcome.
MaxPorts == 48
ShownPorts == 8
\* The bound of queryVLANInfo's loop, the identifier at which it stops, and
\* the last VLAN whose errors it shows.
MaxVLANs == 4094
LastVLAN == 100
ShownVLANs == 10
\* maxPorts of queryRateLimiting, and the last port whose errors it shows.
RatePorts == 24
ShownRates == 4

\* The errors of the client library: a timeout, a port the switch does not
\* have, a VLAN it does not have. No characters: no error.
TimeoutError == <<"c", "o", "n", "n", "e", "c", "t", "i", "o", "n", " ", "t", "i", "m", "e", "o", "u", "t">>
InvalidPortError == <<"i", "n", "v", "a", "l", "i", "d", " ", "p", "o", "r", "t", " ", "n", "u", "m", "b", "e", "r">>
NotFoundError == <<"V", "L", "A", "N", " ", "n", "o", "t", " ", "f", "o", "u", "n", "d">>

\* strings.Contains.
Contains(text, part) ==
    \E i \in 0..(Len(text) - Len(part)) : SubSeq(text, i + 1, i + Len(part)) = part

\* What queryAllParameters does, in order (lines 44-194): the headers it
\* prints, the queries it makes itself or through queryQoSInfo,
\* queryLoopDetection and queryPortMirroring, and the loops it calls.
Plan ==
    << [kind |-> "header", name |-> "Device Identification"],
       [kind |-> "query", name |-> "Device MAC"],
       [kind |-> "query", name |-> "Model"],
       [kind |-> "query", name |-> "Device Name"],
       [kind |-> "query", name |-> "Firmware Version"],
       [kind |-> "query", name |-> "Hardware Version"],
       [kind |-> "query", name |-> "Serial Number"],
       [kind |-> "header", name |-> "Network Configuration"],
       [kind |-> "query", name |-> "IP Address"],
       [kind |-> "query", name |-> "Subnet Mask"],
       [kind |-> "query", name |-> "Gateway"],
       [kind |-> "query", name |-> "DHCP Enabled"],
       [kind |-> "header", name |-> "System Status"],
       [kind |-> "query", name |-> "Password Protected"],
       [kind |-> "header", name |-> "Port Information"],
       [kind |-> "ports", name |-> "Port Statistics"],
       [kind |-> "header", name |-> "VLAN Configuration"],
       [kind |-> "vlans", name |-> "VLAN"],
       [kind |-> "header", name |-> "Quality of Service"],
       [kind |-> "query", name |-> "QoS Configuration"],
       [kind |-> "header", name |-> "Loop Detection"],
       [kind |-> "query", name |-> "Loop Detection"],
       [kind |-> "header", name |-> "Port Mirroring"],
       [kind |-> "query", name |-> "Port Mirroring"],
       [kind |-> "header", name |-> "Rate Limiting"],
       [kind |-> "rates", name |-> "Port Rate Limit"],
       [kind |-> "query", name |-> "Statistics Reset Time"],
       [kind |-> "header", name |-> "System Information"],
       [kind |-> "query", name |-> "Uptime"] >>

\* The switches followed: a switch has ports 1 .. ports and the VLANs
\* vlans; the queries named in failing and the port and VLAN queries
\* numbered in timeouts time out. Every switch followed has the VLAN
\* LastVLAN, at which queryVLANInfo's loop then ends.
Switches ==
    [ports : {0, 7, 8, 9, 23, 47, 48},
     vlans : {{1, LastVLAN}, {1, 2, 10, 11, LastVLAN}},
     failing : {{}, {"Model"}, {"Uptime", "QoS Configuration"},
                {Plan[k].name : k \in {i \in 1..Len(Plan) : Plan[i].kind = "query"}}},
     timeouts : {{}, {1, 9}, {8, 10, 11}, {5, 48, LastVLAN},
                 1..(MaxPorts + 2) \cup {LastVLAN}}]

ItemError(item) == IF item \in switch.failing THEN TimeoutError ELSE <<>>

PortError(p) ==
    IF p \in switch.timeouts THEN TimeoutError
    ELSE IF p > switch.ports THEN InvalidPortError
    ELSE <<>>

VLANError(v) ==
    IF v \in switch.timeouts THEN TimeoutError
    ELSE IF v \notin switch.vlans THEN NotFoundError
    ELSE <<>>

\* What is printed for one query: the value when it succeeded, the line
\* "<item>: Error - <message>" when it failed, the tool is verbose and the
\* error is one of those shown.
QueryLines(v, item, index, err, shown) ==
    IF err # <<>>
    THEN (IF v /\ shown THEN <<Line("error", item, index, err)>> ELSE <<>>)
    ELSE <<Line("value", item, index, 0)>>

Asked(item, index, err) == [item |-> item, index |-> index, err |-> err]

\* Lines 14-42: the interface name is required and has to resolve, the
\* client is created, the banner is printed.
ClientMain ==
    /\ section = 0 /\ switch # NoSwitch
    /\ IF interfaceName = "" \/ InterfaceError(interfaceName)
       THEN section' = -1 /\ output' = <<Line("fatal", 0, 0, 0)>>
       ELSE \/ section' = -1 /\ output' = <<Line("fatal", 0, 0, 0)>>
            \/ section' = 1 /\ output' = <<Line("banner", 0, 0, 0)>>
    /\ port' = 1 /\ vlanID' = 1
    /\ UNCHANGED <<flags, mainVars, scanVars, batchVars, txn, histVars, reportVars,
                   switch, queries>>

InPlan(kind) == section \in 1..Len(Plan) /\ Plan[section].kind = kind

\* A section header (fmt.Println, lines 49-186).
Header ==
    /\ InPlan("header")
    /\ output' = Append(output, Line("header", Plan[section].name, 0, 0))
    /\ section' = section + 1
    /\ UNCHANGED <<flags, mainVars, scanVars, batchVars, txn, histVars, reportVars,
                   switch, port, vlanID, queries>>

\* One query of queryAllParameters (lines 50-150, 177-193), queryQoSInfo,
\* queryLoopDetection or queryPortMirroring (lines 246-288).
Query ==
    /\ InPlan("query")
    /\ LET item == Plan[section].name
           err == ItemError(item)
       IN  /\ queries' = Append(queries, Asked(item, 0, err))
           /\ output' = output \o QueryLines(verbose, item, 0, err, TRUE)
    /\ section' = section + 1
    /\ UNCHANGED <<flags, mainVars, scanVars, batchVars, txn, histVars, reportVars,
                   switch, port, vlanID>>

\* The break of queryPortStatistics, were it taken at any port.
PortsEnd_AtAnyPort(p, err) == Contains(err, <<"i", "n", "v", "a", "l", "i", "d", " ", "p", "o", "r", "t">>)

\* The break of queryPortStatistics (line 205).
PortsEnd(p, err) ==
    err # <<>> /\ p > ShownPorts /\ Contains(err, <<"i", "n", "v", "a", "l", "i", "d", " ", "p", "o", "r", "t">>)

\* Whether an error of a port query is shown, were it shown for any port.
PortErrorShown_Always(p) == TRUE

\* Whether an error of a port query is shown (line 202).
PortErrorShown(p) == p <= ShownPorts

\* One iteration of queryPortStatistics' loop (lines 200-219), and the
\* return when it was the last.
PortStatistics ==
    /\ InPlan("ports")
    /\ port <= MaxPorts
    /\ LET err == PortError(port)
       IN  /\ queries' = Append(queries, Asked("Port Statistics", port, err))
           /\ output' = output
                 \o QueryLines(verbose, "Port Statistics", port, err, PortErrorShown(port))
           /\ IF PortsEnd(port, err) \/ ~(port + 1 <= MaxPorts)
              THEN section' = section + 1 /\ port' = 1
              ELSE section' = section /\ port' = port + 1
    /\ UNCHANGED <<flags, mainVars, scanVars, batchVars, txn, histVars, reportVars,
                   switch, vlanID>>

\* One iteration of queryVLANInfo's loop (lines 224-243): the continue of
\* line 230 skips the test of line 240.
VLANInfo ==
    /\ InPlan("vlans")
    /\ vlanID <= MaxVLANs
    /\ LET err == VLANError(vlanID)
           continues == err # <<>> /\ vlanID > ShownVLANs
                            /\ Contains(err, <<"n", "o", "t", " ", "f", "o", "u", "n", "d">>)
       IN  /\ queries' = Append(queries, Asked("VLAN", vlanID, err))
           /\ output' = output
                 \o QueryLines(verbose, "VLAN", vlanID, err, vlanID <= ShownVLANs)
           /\ IF (~continues /\ vlanID >= LastVLAN) \/ ~(vlanID + 1 <= MaxVLANs)
              THEN section' = section + 1 /\ vlanID' = 1
              ELSE section' = section /\ vlanID' = vlanID + 1
    /\ UNCHANGED <<flags, mainVars, scanVars, batchVars, txn, histVars, reportVars,
                   switch, port>>

\* One iteration of queryRateLimiting's loop (lines 294-309).
RateLimiting ==
    /\ InPlan("rates")
    /\ port <= RatePorts
    /\ LET err == PortError(port)
       IN  /\ queries' = Append(queries, Asked("Port Rate Limit", port, err))
           /\ output' = output
                 \o QueryLines(verbose, "Port Rate Limit", port, err, port <= ShownRates)
           /\ IF (err # <<>> /\ port > ShownRates
                     /\ Contains(err, <<"i", "n", "v", "a", "l", "i", "d", " ", "p", "o", "r", "t">>))
                 \/ ~(port + 1 <= RatePorts)
              THEN section' = section + 1 /\ port' = 1
              ELSE section' = section /\ port' = port + 1
    /\ UNCHANGED <<flags, mainVars, scanVars, batchVars, txn, histVars, reportVars,
                   switch, vlanID>>

\* The client tool, started with or without -v against one of Switches;
\* the discovery tool is not run.
ClientInit ==
    /\ scenario = "silent"
    /\ interfaceName \in Interfaces
    /\ startHex = Hex4(0) /\ endHex = Hex4(MaxUint16)
    /\ batchSize = DefaultBatch /\ delay = DefaultDelayMs
    /\ verbose \in BOOLEAN
    /\ outputFile = <<>>
    /\ pc = "main" /\ fatal = ""
    /\ startVal = 0 /\ endVal = 0
    /\ discovered = FALSE /\ devices = 0 /\ devIdx = 0
    /\ results = NoResults
    /\ current = 0 /\ batchNum = 0 /\ batchEnd = 0 /\ sleeps = 0
    /\ tlv = 0 /\ batchResults = <<>>
    /\ txn = <<>>
    /\ batches = <<>> /\ nQueries = 0 /\ lastQueried = -1
    /\ queried = <<>>
    /\ progress = <<>>
    /\ returned = NoResults /\ console = <<>>
    /\ files = <<>> /\ saveLog = <<>>
    /\ switch \in Switches
    /\ section = 0 /\ port = 0 /\ vlanID = 0
    /\ queries = <<>> /\ output = <<>>

ClientNext ==
    \/ ClientMain
    \/ Header
    \/ Query
    \/ PortStatistics
    \/ VLANInfo
    \/ RateLimiting

ClientSpec == ClientInit /\ [][ClientNext]_vars

(***************************************************************************)
(* The initial states: the flags as the operator gives them.               *)
(***************************************************************************)
\* The runs followed: a range within one window against a "window" device,
\* the full range against the "e2e" device and WrapRange against the "wrap"
\* device, both with batch size 0x8001. A run that main ends before
\* discovery is followed with the default flags only, a verbose run without
\* delay only, a run that saves its results for a single identifier or for
\* WrapRange only.
Followed(kind, sHex, eHex, name, size, d, v, out) ==
    LET s == ParseUint(sHex)
        e == ParseUint(eHex)
    IN  IF s.err # "" \/ e.err # "" \/ s.val > e.val \/ name \notin HostInterfaces
        THEN /\ kind = "window" /\ size = DefaultBatch /\ d = DefaultDelayMs /\ ~v
             /\ out = <<>>
        ELSE \/ /\ kind = "e2e"
                /\ s.val = 0 /\ e.val = MaxUint16
                /\ size = WrapRange.batch /\ d = DefaultDelayMs /\ ~v
                /\ out = <<>>
             \/ /\ kind = "wrap"
                /\ s.val = WrapRange.start /\ e.val = WrapRange.end
                /\ size = WrapRange.batch /\ d = 0 /\ ~v
                /\ out \in {<<>>, <<"o", "u", "t", ".", "t", "x", "t">>}
             \/ /\ kind = "window"
                /\ v => d = 0
                /\ out # <<>> =>
                      /\ sHex = eHex /\ sHex = Hex4(s.val) /\ s.val \in LowWindow
                      /\ size = 1 /\ d = 0 /\ ~v
                /\ (sHex \in OtherSpellings \/ eHex \in OtherSpellings)
                      => size = 1 /\ d = 0 /\ ~v
                /\ \/ s.val \in LowWindow /\ e.val \in LowWindow
                   \/ s.val \in TopWindow /\ e.val \in TopWindow

\* The ranges followed, whatever the other flags.
RangeFollowed(kind, sHex, eHex, name) ==
    LET s == ParseUint(sHex)
        e == ParseUint(eHex)
    IN  IF s.err # "" \/ e.err # "" \/ s.val > e.val \/ name \notin HostInterfaces
        THEN kind = "window"
        ELSE \/ kind = "e2e" /\ s.val = 0 /\ e.val = MaxUint16
             \/ kind = "wrap" /\ s.val = WrapRange.start /\ e.val = WrapRange.end
             \/ /\ kind = "window"
                /\ \/ s.val \in LowWindow /\ e.val \in LowWindow
                   \/ s.val \in TopWindow /\ e.val \in TopWindow

\* The state main starts in, whatever the flags.
Start ==
    /\ pc = "main" /\ fatal = ""
    /\ startVal = 0 /\ endVal = 0
    /\ discovered = FALSE /\ devices = 0 /\ devIdx = 0
    /\ results = NoResults
    /\ current = 0 /\ batchNum = 0 /\ batchEnd = 0 /\ sleeps = 0
    /\ tlv = 0 /\ batchResults = <<>>
    /\ txn = <<>>
    /\ batches = <<>> /\ nQueries = 0 /\ lastQueried = -1
    /\ queried = <<>>
    /\ progress = <<>>
    /\ returned = NoResults /\ console = <<>>
    /\ files = <<>> /\ saveLog = <<>>
    /\ switch = NoSwitch /\ section = 0 /\ port = 0 /\ vlanID = 0
    /\ queries = <<>> /\ output = <<>>

Init ==
    /\ scenario \in {"window", "e2e", "wrap"}
    /\ interfaceName \in Interfaces
    /\ startHex \in HexInputs
    /\ endHex \in HexInputs
    /\ RangeFollowed(scenario, startHex, endHex, interfaceName)
    /\ batchSize \in BatchSizes
    /\ delay \in Delays
    /\ verbose \in BOOLEAN
    /\ outputFile \in OutputFiles
    /\ Followed(scenario, startHex, endHex, interfaceName, batchSize, delay, verbose,
                outputFile)
    /\ Start

\* The runs against the silent device, with batch size 1: a single
\* identifier at the bottom or at the top of the identifier space.
FairInit ==
    /\ scenario = "silent"
    /\ interfaceName \in Interfaces
    /\ startHex \in {Hex4(0), Hex4(MaxUint16)}
    /\ endHex = startHex
    /\ batchSize = 1
    /\ delay \in Delays
    /\ verbose = FALSE
    /\ outputFile \in (IF startHex = Hex4(0) /\ interfaceName \in HostInterfaces
                        THEN OutputFiles ELSE {<<>>})
    /\ Start

\* The runs against the "report" device: the range 0000-0002 or 0000-0063,
\* in one batch, with or without an output file.
ReportInit ==
    /\ scenario = "report"
    /\ interfaceName = "eth0"
    /\ startHex = Hex4(0)
    /\ endHex \in {Hex4(2), Hex4(99)}
    /\ batchSize = DefaultBatch
    /\ delay = 0
    /\ verbose = FALSE
    /\ outputFile \in {<<>>, <<"o", "u", "t", ".", "t", "x", "t">>}
    /\ Start

Next ==
    \/ MainConfig
    \/ Discover
    \/ ScanStart
    \/ BatchBegin
    \/ Probe
    \/ BatchReturn
    \/ ScanReturn
    \/ Display
    \/ Save
    \/ NextDevice

Spec == Init /\ [][Next]_vars

\* Every transaction returns and main is never suspended for ever: a step
\* that can be taken is taken eventually.
FairSpec == FairInit /\ [][Next]_vars /\ WF_vars(Next)

ReportSpec == ReportInit /\ [][Next]_vars

(***************************************************************************)
(* Properties.                                                             *)
(***************************************************************************)
\* A scan of the current device has started (its history is this scan's).
InScan == pc \in {"loop", "batch", "display"}
\* scanDevice has just returned its result to main.
ScanReturned == pc = "display"
\* The number of identifiers in the range.
RangeSize == endVal - startVal + 1
\* A batch handed to scanBatch holds the identifiers lo..hi (none when
\* lo > hi): whether it holds id, lies within [lo, hi], shares an identifier
\* with another batch.
Holds(b, id) == b.lo <= id /\ id <= b.hi
Within(b, lo, hi) == b.lo > b.hi \/ (lo <= b.lo /\ b.hi <= hi)
Overlap(b, c) == b.lo <= b.hi /\ c.lo <= c.hi /\ b.lo <= c.hi /\ c.lo <= b.hi
\* The findings collected so far, in the order they were appended.
FindingsSoFar ==
    results.ValidTLVs \o (IF pc = "batch" THEN batchResults ELSE <<>>)
\* The findings for one identifier.
FindingsFor(fs, id) == {k \in 1..Len(fs) : fs[k].TLV = id}
\* The outcome of the transaction for an identifier the scan has queried.
Outcome(id) == queryTLV(IF id \in DOMAIN txn THEN txn[id] ELSE Absent)
\* That transaction succeeded with a non-empty value.
NonEmptyAnswer(id) == Outcome(id).err = "" /\ Outcome(id).data # <<>>
Min(a, b) == IF a < b THEN a ELSE b
CeilDiv(a, b) == (a + b - 1) \div b

\* C1: for batchSize >= 1 the batches handed to scanBatch partition
\* [start, end]: no batch holds an identifier outside the range, no
\* identifier is in two batches (each new batch is compared with all before
\* it), and when scanDevice returns every identifier of the range is in a
\* batch.
C1_BatchesPartition ==
    (InScan /\ batchSize >= 1 /\ batches # <<>>) =>
        /\ Within(batches[Len(batches)], startVal, endVal)
        /\ \A j \in 1..(Len(batches) - 1) :
              ~Overlap(batches[j], batches[Len(batches)])
        /\ ScanReturned =>
              \A id \in startVal..endVal :
                  \E k \in 1..Len(batches) : Holds(batches[k], id)

\* C2: for start <= end and batchSize >= 1, every transaction returning, a
\* scan that has started returns: scanBatch returns and scanDevice reaches
\* current > end.
C2_ScanTerminates == (pc = "loop" /\ batchSize >= 1) ~> ScanReturned

\* C3: when scanDevice returns, every identifier of the range whose
\* transaction succeeded with a non-empty value has exactly one finding in
\* the result, with that identifier, those bytes and their number as Length.
C3_OneFindingPerAnswer ==
    (ScanReturned /\ batchSize >= 1) =>
        \A id \in (startVal..endVal) \cap DOMAIN txn :
            NonEmptyAnswer(id) =>
                /\ Cardinality(FindingsFor(results.ValidTLVs, id)) = 1
                /\ \A k \in FindingsFor(results.ValidTLVs, id) :
                      /\ results.ValidTLVs[k].RawData = Outcome(id).data
                      /\ results.ValidTLVs[k].Length = Len(Outcome(id).data)

\* C4: an identifier whose transaction returned an error or a zero-length
\* value has no finding, during the scan and in its result, with verbose on
\* or off.
C4_NoFindingForNegative ==
    (InScan \/ pc \in {"save", "next"}) =>
        \A k \in 1..Len(FindingsSoFar) : NonEmptyAnswer(FindingsSoFar[k].TLV)

\* C4's case: a verbose scan has returned a result with a finding, after one
\* identifier of the range failed and another answered with no bytes.
C4_Witness ==
    /\ ScanReturned /\ verbose
    /\ Len(results.ValidTLVs) > 0
    /\ \E id \in (startVal..endVal) \cap DOMAIN txn : txn[id] = Timeout
    /\ \E id \in (startVal..endVal) \cap DOMAIN txn : txn[id] = Value(<<>>)

\* C5: the findings scanDevice returns are strictly ascending by identifier.
C5_FindingsAscending ==
    (ScanReturned /\ batchSize >= 1) =>
        \A k \in 1..(Len(results.ValidTLVs) - 1) :
            results.ValidTLVs[k].TLV < results.ValidTLVs[k + 1].TLV

\* C6: the result's TotalTested is end - start + 1, the number of
\* identifiers in the range (65536 for the full range).
C6_TotalTested == InScan => results.TotalTested = RangeSize

\* C7: the scan of the full range against the end-to-end device returns
\* TotalValid = 2 and the findings 0x0C00 (byte 0x01) and 0x6000 (byte 0x08),
\* in this order; findings are only ever appended, so until it returns the
\* findings it holds are a prefix of these.
E2EFindings == <<TLVResponseOf(3072, <<1>>), TLVResponseOf(24576, <<8>>)>>
C7_EndToEnd ==
    (InScan /\ scenario = "e2e") =>
        /\ Len(FindingsSoFar) <= 2
        /\ FindingsSoFar = SubSeq(E2EFindings, 1, Len(FindingsSoFar))
        /\ ScanReturned =>
              /\ results.TotalValid = 2
              /\ results.ValidTLVs = E2EFindings

\* C8: for batchSize >= 1 every batch (checked as it is handed to scanBatch)
\* ends at min(cursor + batchSize - 1, end), and scanDevice returns after
\* ceil((end - start + 1) / batchSize) batches.
C8_BatchBoundaries ==
    (InScan /\ batchSize >= 1) =>
        /\ batches # <<>> =>
              batches[Len(batches)].hi
                  = Min(batches[Len(batches)].lo + batchSize - 1, endVal)
        /\ ScanReturned => Len(batches) = CeilDiv(RangeSize, batchSize)

\* C9: scanDevice is never entered with batchSize <= 0.
C9_BatchSizeRejected == InScan => batchSize >= 1

\* C10: with a bound that is no 16-bit hexadecimal number, with start > end
\* or with an interface the host does not have, main's checks end the
\* program with a message (the usage text when no interface is named):
\* nothing is discovered, no scan starts and no transaction is issued.
ConfigError ==
    \/ startHex \in BadHexInputs
    \/ endHex \in BadHexInputs
    \/ HexValue(startHex) > HexValue(endHex)
    \/ interfaceName \notin HostInterfaces
C10_ConfigErrorsFatal ==
    ConfigError =>
        /\ \/ pc = "main"
           \/ pc = "fatal" /\ fatal # ""
           \/ pc = "usage" /\ interfaceName = ""
        /\ ~discovered
        /\ nQueries = 0 /\ batches = <<>> /\ txn = <<>>

\* C10's case: main has died of start > end, both bounds and the interface
\* being good.
C10_Witness ==
    /\ pc = "fatal"
    /\ startHex \notin BadHexInputs /\ endHex \notin BadHexInputs
    /\ interfaceName \in HostInterfaces
    /\ HexValue(startHex) > HexValue(endHex)

\* The last transaction of the scan failed.
LastFailed == nQueries > 0 /\ Outcome(lastQueried).err # ""

\* C11: a failed transaction aborts neither the batch nor the scan: after
\* it the scan goes on and scanDevice returns its result.
C11_ErrorNeverAborts == (pc = "batch" /\ LastFailed) ~> ScanReturned

\* C12: the identifiers handed to queryTLV within one scan are strictly
\* ascending: every run of consecutive identifiers starts above the end of
\* the run before it, so no identifier is queried twice.
C12_QueriesAscending ==
    InScan =>
        \A k \in 1..(Len(queried) - 1) : queried[k].hi < queried[k + 1].lo

\* The number of batches after which another batch follows.
BatchesFollowed ==
    IF pc = "loop" /\ current <= endVal THEN Len(batches)
    ELSE IF batches = <<>> THEN 0 ELSE Len(batches) - 1

\* C13: scanDevice sleeps once between two consecutive batches and never
\* after the last: with delay > 0 it has slept once for every batch that
\* another batch follows (number of batches - 1 when it returns), with
\* delay = 0 never.
C13_SleepsBetweenBatches ==
    InScan => sleeps = IF delay > 0 THEN BatchesFollowed ELSE 0

\* C13's case: a scan with a positive delay has returned after three
\* batches, having slept twice.
C13_Witness ==
    /\ ScanReturned /\ delay > 0
    /\ Len(batches) >= 3 /\ sleeps = Len(batches) - 1

(***************************************************************************)
(* The report: success rate, interpretation, output file.                  *)
(***************************************************************************)
\* The values of the lines of one kind among printed lines.
ValuesOf(lines, tag) ==
    {lines[k].a : k \in {i \in 1..Len(lines) : lines[i].tag = tag}}

Displayed == pc \in {"save", "next", "done"}

\* saveResults has written the report of the device under scan.
Saved ==
    /\ pc \in {"next", "done"}
    /\ saveLog # <<>>
    /\ saveLog[Len(saveLog)].device = devIdx
    /\ saveLog[Len(saveLog)].created

SavedLines == files[saveLog[Len(saveLog)].filename]

\* The number decimal digits spell.
RECURSIVE DecimalValue(_)
DecimalValue(digits) ==
    IF digits = <<>> THEN 0
    ELSE 10 * DecimalValue(SubSeq(digits, 1, Len(digits) - 1))
            + DigitVal(digits[Len(digits)])

AllDigits(text) ==
    text # <<>> /\ \A i \in 1..Len(text) : \E k \in 1..10 : UpperDigits[k] = text[i]

\* text is valid/tested*100 to the nearest hundredth, written with two
\* decimals: h hundredths with |h/100 - valid/tested*100| <= 1/200.
IsRateOf(text, valid, tested) ==
    /\ Len(text) >= 4
    /\ text[Len(text) - 2] = "."
    /\ AllDigits(SubSeq(text, 1, Len(text) - 3))
    /\ AllDigits(SubSeq(text, Len(text) - 1, Len(text)))
    /\ LET h == 100 * DecimalValue(SubSeq(text, 1, Len(text) - 3))
                  + DecimalValue(SubSeq(text, Len(text) - 1, Len(text)))
           diff == h * tested - valid * 10000
       IN  2 * (IF diff < 0 THEN -diff ELSE diff) <= tested

\* C14: the success rate displayResults prints and saveResults writes is
\* totalValid / totalTested * 100 rounded to two decimals.
C14_SuccessRate ==
    /\ Displayed =>
          /\ ValuesOf(console, "rate") # {}
          /\ \A text \in ValuesOf(console, "rate") :
                IsRateOf(text, results.TotalValid, results.TotalTested)
    /\ Saved =>
          /\ ValuesOf(SavedLines, "rate") # {}
          /\ \A text \in ValuesOf(SavedLines, "rate") :
                IsRateOf(text, results.TotalValid, results.TotalTested)

\* 3 valid of 100 tested: "3.00" on the console and in the file.
C14_Witness ==
    /\ Saved
    /\ results.TotalTested = 100 /\ results.TotalValid = 3
    /\ ValuesOf(console, "rate") = {<<"3", ".", "0", "0">>}
    /\ ValuesOf(SavedLines, "rate") = {<<"3", ".", "0", "0">>}

\* The findings of the result, and the interpretation printed for the j-th
\* of them among lines: the "interp" line between its "tlv" line and the
\* next, no characters when there is none.
Findings == results.ValidTLVs

TagIndices(lines, tag) == {i \in 1..Len(lines) : lines[i].tag = tag}

Interpretation(lines, j) ==
    LET starts == TagIndices(lines, "tlv")
        i == CHOOSE x \in starts : Cardinality({y \in starts : y <= x}) = j
        own == {k \in TagIndices(lines, "interp") :
                    k > i /\ \A y \in starts : y > i => k < y}
    IN  IF own = {} THEN <<>> ELSE lines[CHOOSE k \in own : TRUE].a

\* Every finding has its line, on the console and in the file.
FindingsPrinted(lines) == Cardinality(TagIndices(lines, "tlv")) = Len(Findings)

Bar == <<" ", "|", " ">>

StartsWith(text, head) ==
    Len(text) >= Len(head) /\ SubSeq(text, 1, Len(head)) = head

EndsWith(text, tail) ==
    Len(text) >= Len(tail) /\ SubSeq(text, Len(text) - Len(tail) + 1, Len(text)) = tail

\* A candidate ends the interpretation: alone, or after another candidate.
LastCandidate(text, cand) ==
    text = cand \/ EndsWith(text, Bar \o cand)

\* The digits a text ends with.
RECURSIVE TrailingDigits(_)
TrailingDigits(text) ==
    IF text = <<>> \/ ~AllDigits(<<text[Len(text)]>>) THEN <<>>
    ELSE TrailingDigits(SubSeq(text, 1, Len(text) - 1)) \o <<text[Len(text)]>>

\* The number decimal digits spell, as its upper and lower 16 bits.
RECURSIVE Halves(_)
Halves(digits) ==
    IF digits = <<>> THEN [hi |-> 0, lo |-> 0]
    ELSE LET h == Halves(SubSeq(digits, 1, Len(digits) - 1))
             lo == h.lo * 10 + DigitVal(digits[Len(digits)])
         IN  [hi |-> h.hi * 10 + lo \div UInt16Mod, lo |-> lo % UInt16Mod]

\* Digits without a leading zero.
Canonical(digits) == AllDigits(digits) /\ (Len(digits) = 1 \/ digits[1] # "0")

\* The candidates the claim gives for a payload of 1, 2, 4 or 6 bytes are
\* the last of the interpretation.
KeyedCandidates(text, data) ==
    CASE Len(data) = 1 ->
            LastCandidate(text, <<"U", "i", "n", "t", "8", ":", " ">> \o Decimal(data[1]))
      [] Len(data) = 2 ->
            LET digits == TrailingDigits(text)
            IN  /\ Canonical(digits)
                /\ DecimalValue(digits) = data[1] * 256 + data[2]
                /\ LastCandidate(text, <<"U", "i", "n", "t", "1", "6", ":", " ">> \o digits)
      [] Len(data) = 4 ->
            LET ip == <<"I", "P", ":", " ">>
                        \o Decimal(data[1]) \o <<".">> \o Decimal(data[2]) \o <<".">>
                        \o Decimal(data[3]) \o <<".">> \o Decimal(data[4])
                head == SubSeq(text, 1, Len(text) - Len(Bar \o ip))
                digits == TrailingDigits(head)
            IN  /\ EndsWith(text, Bar \o ip)
                /\ Canonical(digits)
                /\ Halves(digits) = [hi |-> data[1] * 256 + data[2],
                                     lo |-> data[3] * 256 + data[4]]
                /\ LastCandidate(head, <<"U", "i", "n", "t", "3", "2", ":", " ">> \o digits)
      [] Len(data) = 6 ->
            LastCandidate(text, <<"M", "A", "C", ":", " ">>
                \o Hex2(data[1]) \o <<":">> \o Hex2(data[2]) \o <<":">> \o Hex2(data[3])
                \o <<":">> \o Hex2(data[4]) \o <<":">> \o Hex2(data[5]) \o <<":">>
                \o Hex2(data[6]))
      [] OTHER -> TRUE

\* C15: a payload of 1 byte is read as its 8-bit value, of 2 bytes as the
\* big-endian 16-bit value, of 4 bytes as both the big-endian 32-bit value
\* and the dotted quad, of 6 bytes as a colon-separated hexadecimal MAC.
C15_LengthKeyedCandidates ==
    /\ Displayed =>
          /\ Findings # <<>> => FindingsPrinted(console)
          /\ \A j \in 1..Len(Findings) :
                KeyedCandidates(Interpretation(console, j), Findings[j].RawData)
    /\ Saved =>
          /\ FindingsPrinted(SavedLines)
          /\ \A j \in 1..Len(Findings) :
                KeyedCandidates(Interpretation(SavedLines, j), Findings[j].RawData)

\* The address 192.168.1.100, displayed and saved with both its readings.
C15_Witness ==
    /\ Saved
    /\ Len(Findings) = 2
    /\ Findings[1].RawData = <<192, 168, 1, 100>>
    /\ Interpretation(console, 2) = <<"U", "i", "n", "t", "3", "2", ":", " ", "3", "2", "3", "2", "2", "3", "5", "8", "7", "6", " ", "|", " ", "I", "P", ":", " ", "1", "9", "2", ".", "1", "6", "8", ".", "1", ".", "1", "0", "0">>
    /\ Interpretation(SavedLines, 1) = Interpretation(console, 2)

\* Every byte of a payload that is not empty lies in 32 .. 126.
Printable(data) ==
    data # <<>> /\ \A i \in 1..Len(data) : 32 <= data[i] /\ data[i] <= 126

Keyed(data) == Len(data) \in {1, 2, 4, 6}

\* The String candidate of a payload, in quotes.
Quoted(data) == <<"S", "t", "r", "i", "n", "g", ":", " ", "\"">> \o StringOf(data) \o <<"\"">>

\* The interpretation has a String candidate exactly for a printable
\* payload; it is the payload's characters, and the candidates by length
\* follow it.
StringReading(text, data) ==
    /\ StartsWith(text, <<"S", "t", "r", "i", "n", "g", ":", " ", "\"">>) <=> Printable(data)
    /\ Printable(data) =>
          IF Keyed(data)
          THEN StartsWith(text, Quoted(data) \o Bar) /\ Len(text) > Len(Quoted(data) \o Bar)
          ELSE StartsWith(text, Quoted(data))

\* C16: a payload yields a String candidate if and only if it is not empty
\* and every byte lies in [32, 126]; the candidate comes in addition to the
\* candidates by length.
C16_StringCandidate ==
    /\ Displayed =>
          \A j \in 1..Len(Findings) :
              StringReading(Interpretation(console, j), Findings[j].RawData)
    /\ Saved =>
          \A j \in 1..Len(Findings) :
              StringReading(Interpretation(SavedLines, j), Findings[j].RawData)

\* The bytes 0x68 0x69, displayed and saved as "hi" and as 26729.
C16_Witness ==
    /\ Saved
    /\ Len(Findings) = 1
    /\ Findings[1].RawData = <<104, 105>>
    /\ Interpretation(console, 1) = <<"S", "t", "r", "i", "n", "g", ":", " ", "\"", "h", "i", "\"", " ", "|", " ", "U", "i", "n", "t", "1", "6", ":", " ", "2", "6", "7", "2", "9">>
    /\ Interpretation(SavedLines, 1) = <<"S", "t", "r", "i", "n", "g", ":", " ", "\"", "h", "i", "\"", " ", "|", " ", "U", "i", "n", "t", "1", "6", ":", " ", "2", "6", "7", "2", "9">>

\* C17 as stated: a payload whose length is not 1, 2, 4 or 6 has no
\* candidate, its interpretation is empty and no Interpretation line is
\* printed for the finding.
C17_OtherLengthsNoCandidate ==
    /\ Displayed =>
          \A j \in 1..Len(Findings) :
              ~Keyed(Findings[j].RawData) => Interpretation(console, j) = <<>>
    /\ Saved =>
          \A j \in 1..Len(Findings) :
              ~Keyed(Findings[j].RawData) => Interpretation(SavedLines, j) = <<>>

\* What is printed for a payload that has no candidate by length: the
\* String candidate alone when it is printable, nothing otherwise.
StringOnly(text, data) ==
    text = IF Printable(data) THEN Quoted(data) ELSE <<>>

\* C17, amended: a payload whose length is not 1, 2, 4 or 6 has no
\* candidate by length; its interpretation is the String candidate alone
\* when every byte is printable, and empty (no Interpretation line)
\* otherwise.
C17_OtherLengthsStringOnly ==
    /\ Displayed =>
          \A j \in 1..Len(Findings) :
              ~Keyed(Findings[j].RawData)
                  => StringOnly(Interpretation(console, j), Findings[j].RawData)
    /\ Saved =>
          \A j \in 1..Len(Findings) :
              ~Keyed(Findings[j].RawData)
                  => StringOnly(Interpretation(SavedLines, j), Findings[j].RawData)

\* Three bytes that are not printable, displayed and saved as raw
\* hexadecimal only.
C17_Witness ==
    /\ Saved
    /\ Len(Findings) = 1
    /\ Findings[1].RawData = <<8, 105, 8>>
    /\ TagIndices(console, "interp") = {}
    /\ TagIndices(SavedLines, "interp") = {}
    /\ ValuesOf(SavedLines, "hex") = {<<"0", "8", "6", "9", "0", "8">>}

\* C18: the interpretation depends on the raw bytes only: findings with the
\* same bytes have the same interpretation whatever their identifiers, and
\* the console and the file show the same interpretation for a finding.
C18_InterpretationOfBytesOnly ==
    /\ Displayed =>
          \A j, k \in 1..Len(Findings) :
              Findings[j].RawData = Findings[k].RawData
                  => Interpretation(console, j) = Interpretation(console, k)
    /\ Saved =>
          \A j, k \in 1..Len(Findings) :
              Findings[j].RawData = Findings[k].RawData
                  => Interpretation(SavedLines, j) = Interpretation(console, k)

\* Two findings with the same bytes under different identifiers, with the
\* same interpretation on the console and in the file.
C18_Witness ==
    /\ Saved
    /\ Len(Findings) = 2
    /\ Findings[1].TLV # Findings[2].TLV
    /\ Findings[1].RawData = Findings[2].RawData
    /\ Interpretation(console, 1) # <<>>
    /\ Interpretation(console, 1) = Interpretation(console, 2)
    /\ Interpretation(SavedLines, 2) = Interpretation(console, 1)

\* C19: after scanDevice returned, displayResults and saveResults leave the
\* result (the findings and their order, the totals, the duration) as
\* scanDevice returned it.
C19_ReportingLeavesResult == Displayed => results = returned

\* The step is a call of saveResults in which os.Create fails.
CreateFails ==
    /\ pc = "save"
    /\ Len(saveLog') = Len(saveLog) + 1
    /\ ~saveLog'[Len(saveLog')].created

\* The last call of saveResults failed to create its file.
LastSaveFailed == saveLog # <<>> /\ ~saveLog[Len(saveLog)].created

\* C20: when the output file cannot be created, saveResults prints the
\* failure and returns: no file is written and the result is left as it
\* was; main then goes on with the next device, and at its end it has
\* scanned and reported every device.
C20_CreateFailureSkipped ==
    /\ [][/\ CreateFails =>
               /\ files' = files
               /\ results' = results
               /\ console' = Append(console,
                                    Line("createError", saveLog'[Len(saveLog')].filename, 0, 0))
               /\ pc' = "next" /\ fatal' = fatal
          /\ (pc = "next" /\ LastSaveFailed) =>
               IF devIdx + 1 < devices
               THEN pc' = "scanDevice" /\ devIdx' = devIdx + 1
               ELSE pc' = "done"]_vars
    /\ [](pc = "done" /\ outputFile # <<>> =>
             /\ Len(saveLog) = devices
             /\ \A k \in 1..Len(saveLog) : saveLog[k].device = k - 1)

\* Two devices: the file of the first could not be created, the second was
\* scanned, displayed and saved all the same.
C20_Witness ==
    /\ pc = "done" /\ devices = 2
    /\ Len(saveLog) = 2
    /\ ~saveLog[1].created /\ saveLog[2].created
    /\ DOMAIN files = {saveLog[2].filename}
    /\ saveLog[1].filename # saveLog[2].filename
    /\ ValuesOf(console, "saved") = {saveLog[2].filename}

(***************************************************************************)
(* The result's totals, the lookups, the file names.                       *)
(***************************************************************************)
\* C21: in every result scanDevice returns, totalValid is the number of
\* findings of the result.
C21_TotalValidCountsFindings ==
    ScanReturned => results.TotalValid = Len(results.ValidTLVs)

\* A result with all the findings of its range, counted.
C21_Witness ==
    /\ ScanReturned
    /\ Len(results.ValidTLVs) = RangeSize /\ RangeSize >= 2
    /\ results.TotalValid = RangeSize

\* The name or the model lookup of the scan under way failed.
LookupFailed == InScan /\ (results.DeviceName = "" \/ results.DeviceModel = "")

\* C22: when the name or the model lookup fails the field stays empty and
\* the scan goes on as it should: it probes the identifiers of the range
\* and no others, and returns having probed each of them once.
C22_LookupFailureScansOn ==
    (LookupFailed /\ batchSize >= 1) =>
        /\ \A k \in 1..Len(queried) :
              startVal <= queried[k].lo /\ queried[k].hi <= endVal
        /\ ScanReturned => queried = <<[lo |-> startVal, hi |-> endVal]>>

\* The last place of a character in a name from place from on, 0 when it
\* has none there.
LastOf(name, char, from) ==
    LET places == {i \in from..Len(name) : name[i] = char}
    IN  IF places = {} THEN 0 ELSE CHOOSE i \in places : \A j \in places : j <= i

\* The name of device i (from 1) of several: "_device<i>" before the
\* extension of the base filename (what follows the last "/"), or at the end
\* when the base filename has no extension.
Disambiguated(out, i) ==
    LET base == LastOf(out, "/", 1) + 1
        dot == LastOf(out, ".", base)
        device == <<"_", "d", "e", "v", "i", "c", "e">> \o Decimal(i)
    IN  IF dot > 0
        THEN SubSeq(out, 1, dot - 1) \o device \o SubSeq(out, dot, Len(out))
        ELSE out \o device

\* C23: with several devices and an output file, device i (from 1) is
\* saved under the name with "_device<i>" before the extension, or at the
\* end when the base filename has none; a single device is saved under the
\* name as given; the names of different devices differ.
C23_DeviceFilenames ==
    /\ \A k \in 1..Len(saveLog) :
          saveLog[k].filename =
              IF devices > 1 THEN Disambiguated(outputFile, saveLog[k].device + 1)
              ELSE outputFile
    /\ \A j, k \in 1..Len(saveLog) :
          j # k => saveLog[j].filename # saveLog[k].filename

(***************************************************************************)
(* The client tool.                                                        *)
(***************************************************************************)
\* queryAllParameters has returned.
ClientDone == section = Len(Plan) + 1

\* The failed queries among those issued.
FailedQueries == {k \in 1..Len(queries) : queries[k].err # <<>>}

\* The line "<item>: Error - <message>" of a query is among the output.
ErrorPrinted(query) ==
    \E i \in 1..Len(output) :
        /\ output[i].tag = "error"
        /\ output[i].a = query.item /\ output[i].b = query.index
        /\ output[i].c = query.err

\* Every section header is among the output.
HeadersPrinted ==
    \A k \in 1..Len(Plan) :
        Plan[k].kind = "header" =>
            \E i \in 1..Len(output) :
                output[i].tag = "header" /\ output[i].a = Plan[k].name

Headers ==
    {"Device Identification", "Network Configuration", "System Status",
     "Port Information", "VLAN Configuration", "Quality of Service",
     "Loop Detection", "Port Mirroring", "Rate Limiting", "System Information"}

AllHeaders ==
    {Plan[k].name : k \in {i \in 1..Len(Plan) : Plan[i].kind = "header"}} = Headers

Shown(query) ==
    CASE query.item = "Port Statistics" -> query.index <= 8
      [] query.item = "VLAN" -> query.index <= 10
      [] query.item = "Port Rate Limit" -> query.index <= 4
      [] OTHER -> TRUE

IsTLVLine(line) == line.tag = "tlv"

\* The identifiers of the finding lines among lines, in order.
Listing(lines) ==
    LET found == SelectSeq(lines, IsTLVLine)
    IN  [k \in 1..Len(found) |-> found[k].a]

\* The block of the j-th finding in the file: its lines from the "tlv" line
\* to the empty line.
BlockStart(lines, j) ==
    CHOOSE x \in TagIndices(lines, "tlv") :
        Cardinality({y \in TagIndices(lines, "tlv") : y <= x}) = j

\* C25: the file holds one block for each finding, as many as its line
\* "Valid TLVs Found" says, after the header, in ascending order of the
\* identifiers and in the order of the console listing of the same scan.
C25_ReportBlocks ==
    Saved =>
        LET lines == SavedLines
            ids == Listing(lines)
        IN  /\ Len(ids) = Len(Findings)
            /\ ValuesOf(lines, "valid") = {Len(ids)}
            /\ \A j \in 1..Len(ids) :
                  LET i == BlockStart(lines, j)
                  IN  /\ ids[j] = Findings[j].TLV
                      /\ i + 3 <= Len(lines)
                      /\ lines[i + 1].tag = "length" /\ lines[i + 1].a = Findings[j].Length
                      /\ lines[i + 2].tag = "hex" /\ lines[i + 2].a = Findings[j].HexValue
                      /\ lines[i + 3].tag \in {"interp", "blank"}
                      /\ \A h \in TagIndices(lines, "title") \cup TagIndices(lines, "mac")
                                  \cup TagIndices(lines, "tested")
                                  \cup TagIndices(lines, "valid")
                                  \cup TagIndices(lines, "rate")
                                  \cup TagIndices(lines, "duration") : h < i
            /\ \A j \in 1..(Len(ids) - 1) : ids[j] <= ids[j + 1]
            /\ ids = Listing(console)

\* The report of the scan of WrapRange: four blocks in ascending order,
\* though scanDevice returned the findings in another order.
C25_Witness ==
    /\ Saved
    /\ Len(returned.ValidTLVs) = 4
    /\ returned.ValidTLVs[2].TLV > returned.ValidTLVs[3].TLV
    /\ Listing(SavedLines) = <<WrapRange.start, WrapRange.start, WrapRange.start + 1,
                               WrapRange.start + 1>>
    /\ Listing(console) = Listing(SavedLines)

IsBatchLine(line) == line.tag = "batch"
IsFoundLine(line) == line.tag = "found"

\* The j-th line of a kind among the progress lines.
Place(tag, j) ==
    CHOOSE x \in TagIndices(progress, tag) :
        Cardinality({y \in TagIndices(progress, tag) : y <= x}) = j

\* The batches scanBatch has returned from.
BatchesDone == IF pc = "batch" THEN Len(batches) - 1 ELSE Len(batches)

\* The identifiers of a batch that answered with a value of some bytes.
AnsweredIn(b) == {id \in DOMAIN txn : Holds(b, id) /\ NonEmptyAnswer(id)}

RECURSIVE SumOfCounts(_)
SumOfCounts(lines) ==
    IF lines = <<>> THEN 0 ELSE lines[1].a + SumOfCounts(Tail(lines))

\* C26: scanDevice prints one progress line per batch, numbered 1, 2, 3,
\* ..., with the batch's sub-range, and after it the batch's own count of
\* findings; the counts sum to the result's totalValid.
C26_ProgressLines ==
    InScan =>
        LET started == SelectSeq(progress, IsBatchLine)
            counts == SelectSeq(progress, IsFoundLine)
        IN  /\ Len(started) = Len(batches)
            /\ \A k \in 1..Len(started) :
                  /\ started[k].a = k
                  /\ started[k].b = batches[k].lo /\ started[k].c = batches[k].hi
            /\ Len(counts) = BatchesDone
            /\ \A k \in 1..Len(counts) :
                  /\ counts[k].a = Cardinality(AnsweredIn(batches[k]))
                  /\ Place("batch", k) < Place("found", k)
                  /\ k < Len(started) => Place("found", k) < Place("batch", k + 1)
            /\ ScanReturned => SumOfCounts(counts) = results.TotalValid

\* A scan of two batches or more that found something in two of them.
C26_Witness ==
    /\ ScanReturned /\ Len(batches) >= 2
    /\ \E j, k \in TagIndices(progress, "found") :
          j < k /\ progress[j].a >= 1 /\ progress[k].a >= 1
    /\ SumOfCounts(SelectSeq(progress, IsFoundLine)) = results.TotalValid

(***************************************************************************)
(* queryPortStatistics.                                                    *)
(***************************************************************************)
IsPortQuery(query) == query.item = "Port Statistics"

\* The port statistics queries issued, in order.
PortQueries == SelectSeq(queries, IsPortQuery)

\* queryPortStatistics has returned.
PortsDone ==
    section > 0 /\ \A k \in 1..Len(Plan) : Plan[k].kind = "ports" => section > k

\* The error of a query names an invalid port.
InvalidPort(query) == Contains(query.err, <<"i", "n", "v", "a", "l", "i", "d", " ", "p", "o", "r", "t">>)

\* A line of port statistics.
IsStatistics(line) == line.tag = "value" /\ line.a = "Port Statistics"

\* The statistics of a port are among the output.
StatisticsPrinted(p) ==
    \E i \in 1..Len(output) : IsStatistics(output[i]) /\ output[i].b = p

Succeeded(query) == query.err = <<>>

\* C27: queryPortStatistics queries the ports 1, 2, 3, ... in this order,
\* the ports 1 .. 8 whatever the outcome; it stops at the first port above
\* 8 whose error contains "invalid port" and never goes beyond port 48; it
\* prints the statistics of exactly the queried ports whose query
\* succeeded, one line of statistics for each, in the order of the queries.
C27_PortStatistics ==
    LET asked == PortQueries
    IN  /\ \A k \in 1..Len(asked) : asked[k].index = k
        /\ Len(asked) <= 48
        /\ \A k \in 1..(Len(asked) - 1) : ~(k > 8 /\ InvalidPort(asked[k]))
        /\ PortsDone =>
              \/ Len(asked) = 48
              \/ Len(asked) > 8 /\ InvalidPort(asked[Len(asked)])
        /\ LET printed == SelectSeq(output, IsStatistics)
                  succeeded == SelectSeq(asked, Succeeded)
              IN  /\ Len(printed) = Len(succeeded)
                  /\ \A k \in 1..Len(printed) : printed[k].b = succeeded[k].index

\* A switch of nine ports: port 1 and port 9 time out, which stops nothing;
\* the query of port 10 names an invalid port and is the last.
C27_Witness ==
    /\ ClientDone
    /\ Len(PortQueries) = 10
    /\ PortQueries[1].err = TimeoutError /\ PortQueries[9].err = TimeoutError
    /\ InvalidPort(PortQueries[10])
    /\ StatisticsPrinted(8) /\ ~StatisticsPrinted(9) /\ ~StatisticsPrinted(10)

(***************************************************************************)
(* The batch loop of scanDevice.                                           *)
(***************************************************************************)
\* C28: for every batchSize >= 1 each iteration of scanDevice's batch loop
\* makes progress: the batch handed to scanBatch is not empty (its end is
\* not below the cursor) and after the iteration the cursor is above where
\* the iteration found it.
C28_BatchLoopAdvances ==
    (InScan /\ batchSize >= 1) =>
        /\ \A k \in 1..Len(batches) : batches[k].lo <= batches[k].hi
        /\ (pc # "batch" /\ batches # <<>>) =>
              current > batches[Len(batches)].lo

(***************************************************************************)
(* The totals of a returned result.                                        *)
(***************************************************************************)
\* C30: in every result scanDevice returns, totalTested is at least 1 and
\* totalValid is at most totalTested, so that the success rate is defined
\* and lies between 0 and 100 percent.
C30_TotalsBounded ==
    ScanReturned =>
        /\ 1 <= results.TotalTested
        /\ results.TotalValid <= results.TotalTested

(***************************************************************************)
(* The verbose flag and the result of the scan.                            *)
(***************************************************************************)
\* The members of a finite set of numbers, ascending.
RECURSIVE AscendingOf(_)
AscendingOf(ids) ==
    IF ids = {} THEN <<>>
    ELSE LET least == CHOOSE x \in ids : \A y \in ids : x <= y
         IN  <<least>> \o AscendingOf(ids \ {least})

\* The identifiers the device answered with a value of some bytes, batch
\* after batch and ascending within each batch.
RECURSIVE AnsweredOver(_)
AnsweredOver(bs) ==
    IF bs = <<>> THEN <<>>
    ELSE AscendingOf(AnsweredIn(Head(bs))) \o AnsweredOver(Tail(bs))

\* The number of identifiers the batches hold.
RECURSIVE Transactions(_)
Transactions(bs) ==
    IF bs = <<>> THEN 0
    ELSE (IF Head(bs).lo <= Head(bs).hi THEN Head(bs).hi - Head(bs).lo + 1 ELSE 0)
            + Transactions(Tail(bs))

\* The end of the batch that starts at lo, from lo, batchSize and end.
EndFrom(lo) ==
    LET sum == (lo + (batchSize % UInt16Mod) - 1) % UInt16Mod
    IN  IF sum > endVal THEN endVal ELSE sum

\* C29: verbose does not influence the result of the scan. The result
\* scanDevice returns is written here from the range, the batch size and
\* the device's answers alone, and it is the result of the verbose and of
\* the quiet scan alike: the batches and with them the transactions follow
\* from start, end and batchSize; the findings are the identifiers the
\* device answered with some bytes, in the order of the transactions, each
\* with the bytes of its answer; totalValid is their number and
\* totalTested follows from the range.
C29_VerboseLeavesResult ==
    ScanReturned =>
        LET answered == AnsweredOver(batches)
        IN  /\ batches # <<>> => batches[1].lo = startVal
            /\ \A k \in 1..Len(batches) :
                  /\ batches[k].hi = EndFrom(batches[k].lo)
                  /\ k > 1 => batches[k].lo = (batches[k - 1].hi + 1) % UInt16Mod
            /\ nQueries < QueryBudget => nQueries = Transactions(batches)
            /\ Len(results.ValidTLVs) = Len(answered)
            /\ \A k \in 1..Len(answered) :
                  /\ results.ValidTLVs[k].TLV = answered[k]
                  /\ results.ValidTLVs[k].RawData = Outcome(answered[k]).data
            /\ results.TotalValid = Len(answered)
            /\ results.TotalTested = RangeSize % UInt16Mod

\* A quiet scan of two batches has returned two findings, after a third
\* identifier failed.
C29_Witness ==
    /\ ScanReturned /\ ~verbose
    /\ Len(batches) >= 2
    /\ Len(results.ValidTLVs) = 2
    /\ \E id \in (startVal..endVal) \cap DOMAIN txn : txn[id] = Timeout
====
